---- MODULE Spec2Model ----
(***************************************************************************)
(* A model of serializer.py: the schema-driven JSON codec.                 *)
(*                                                                         *)
(* Python values are tagged records [k |-> kind, v |-> payload]:           *)
(*   int   v = the number          bool  v = 1 (True) or 0 (False)         *)
(*   str   v = a one-character string (so iterating it yields itself)      *)
(*   list  v = sequence of values  tuple v = sequence of values            *)
(*   dict  v = sequence of <<key, value>> pairs, keys are str values       *)
(*   gen   v = <<elements, element types>>: the unevaluated generator the  *)
(*             tuple branch of _field_from_json returns                    *)
(*   obj   v = <<class name, field bindings>>: a dataclass instance        *)
(*   err   v = the exception raised                                        *)
(*   map   v = a function from field names to values (a Python dict of     *)
(*             bindings, kept apart from JSON dicts)                       *)
(***************************************************************************)
EXTENDS Integers, Sequences, FiniteSets, TLC

VARIABLES cls, ft, x0, y, z, pc

vars == <<cls, ft, x0, y, z, pc>>

(* Bound: the longest list drawn as an input, at every nesting level. *)
MaxLen == 2

-----------------------------------------------------------------------------
(* Values *)

IntV(n) == [k |-> "int", v |-> n]
BoolV(b) == [k |-> "bool", v |-> b]
StrV(s) == [k |-> "str", v |-> s]
ListV(s) == [k |-> "list", v |-> s]
TupleV(s) == [k |-> "tuple", v |-> s]
DictV(s) == [k |-> "dict", v |-> s]
Gen(elems, types) == [k |-> "gen", v |-> <<elems, types>>]
Obj(c, f) == [k |-> "obj", v |-> <<c, f>>]
Map(f) == [k |-> "map", v |-> f]
Err(e) == [k |-> "err", v |-> e]
None == [k |-> "none", v |-> 0]

IsErr(x) == x.k = "err"

True == BoolV(1)

(* The first exception a comprehension raises, evaluating left to right. *)
FirstErr(s) == s[CHOOSE i \in 1..Len(s) : IsErr(s[i]) /\ \A h \in 1..(i - 1) : ~IsErr(s[h])]
AnyErr(s) == \E i \in 1..Len(s) : IsErr(s[i])

(* Python's ==, on the values of the model. *)
RECURSIVE PyEq(_, _)
PyEq(a, b) ==
  CASE a.k \in {"int", "bool"} /\ b.k \in {"int", "bool"} -> a.v = b.v
    [] a.k = "str" /\ b.k = "str" -> a.v = b.v
    [] a.k \in {"list", "tuple"} /\ b.k = a.k ->
         /\ Len(a.v) = Len(b.v)
         /\ \A i \in 1..Len(a.v) : PyEq(a.v[i], b.v[i])
    [] a.k = "dict" /\ b.k = "dict" ->
         /\ Len(a.v) = Len(b.v)
         /\ \A i \in 1..Len(a.v) : \E h \in 1..Len(b.v) :
              PyEq(a.v[i][1], b.v[h][1]) /\ PyEq(a.v[i][2], b.v[h][2])
    [] a.k = "obj" /\ b.k = "obj" ->
         /\ a.v[1] = b.v[1]
         /\ DOMAIN a.v[2] = DOMAIN b.v[2]
         /\ \A f \in DOMAIN a.v[2] : PyEq(a.v[2][f], b.v[2][f])
    [] a.k = "err" /\ b.k = "err" -> a.v = b.v
    [] OTHER -> FALSE

(* iter(j) and len(j) raise TypeError on an int, a bool and an instance. *)
Iterable(j) == j.k \in {"list", "tuple", "str", "dict"}

(* iter(j): what a for loop or zip sees; a dict gives its keys. *)
Iter(j) ==
  CASE j.k \in {"list", "tuple"} -> j.v
    [] j.k = "str" -> <<j>>
    [] j.k = "dict" -> [i \in 1..Len(j.v) |-> j.v[i][1]]

(* len(j) *)
PyLen(j) == Len(Iter(j))

-----------------------------------------------------------------------------
(* Field types and the declared record classes *)

TPrim == [t |-> "prim"]
TLit(args) == [t |-> "lit", args |-> args]
TUnion(args) == [t |-> "union", args |-> args]
TList(arg) == [t |-> "list", args |-> <<arg>>]
TTuple(args) == [t |-> "tuple", args |-> args]
TDict == [t |-> "dict"]
TRec(c) == [t |-> "rec", cls |-> c]

LitOne == TLit(<<IntV(1)>>)

Classes ==
  [ Tagged |-> [schema |-> ListV(<<StrV("a"), StrV("v")>>), ann |-> [v |-> TPrim]],
    Marked |-> [schema |-> ListV(<<IntV(1), StrV("v")>>), ann |-> [v |-> TPrim]],
    Flagged |-> [schema |-> ListV(<<True, StrV("v")>>), ann |-> [v |-> LitOne]],
    Items |-> [schema |-> ListV(<<StrV("v")>>), ann |-> [v |-> TList(TPrim)]],
    Pair |-> [schema |-> ListV(<<StrV("t")>>), ann |-> [t |-> TTuple(<<LitOne, TPrim>>)]],
    Either |-> [schema |-> ListV(<<StrV("u")>>),
                ann |-> [u |-> TUnion(<<TTuple(<<TPrim>>), TList(LitOne), TDict, LitOne>>)]],
    Table |-> [schema |-> ListV(<<StrV("a"), StrV("m")>>), ann |-> [m |-> TDict]],
    Dup |-> [schema |-> ListV(<<StrV("v"), StrV("v")>>), ann |-> [v |-> TPrim]],
    Nest |-> [schema |-> ListV(<<StrV("w"), ListV(<<StrV("a"), StrV("v")>>)>>),
              ann |-> [w |-> TPrim, v |-> TPrim]],
    Outer |-> [schema |-> ListV(<<StrV("n")>>),
               ann |-> [n |-> TUnion(<<TRec("Tagged"), TRec("Marked")>>)]] ]

ClassNames == DOMAIN Classes

-----------------------------------------------------------------------------
(* The codec *)

RECURSIVE fields_to_json(_), to_json_with_match(_, _), field_from_json(_, _)
RECURSIVE from_json_with_match(_, _, _), from_json(_, _)

(* ChainMap with the lookup order reversed: the last map binding a key wins. *)
RECURSIVE ChainMapLastWins(_)
ChainMapLastWins(maps) ==
  IF maps = <<>> THEN [n \in {} |-> None]
  ELSE LET first == Head(maps)
           rest == ChainMapLastWins(Tail(maps))
       IN [n \in DOMAIN first \cup DOMAIN rest |->
             IF n \in DOMAIN rest THEN rest[n] ELSE first[n]]

(* dict(ChainMap over the maps): a key is looked up in the maps from the
   first on. *)
RECURSIVE ChainMap(_)
ChainMap(maps) ==
  IF maps = <<>> THEN [n \in {} |-> None]
  ELSE LET first == Head(maps)
           rest == ChainMap(Tail(maps))
       IN [n \in DOMAIN first \cup DOMAIN rest |->
             IF n \in DOMAIN first THEN first[n] ELSE rest[n]]

(* zip(a, b): the pairs up to the shorter of the two. *)
Zip(a, b) ==
  LET n == IF Len(a) < Len(b) THEN Len(a) ELSE Len(b)
  IN [i \in 1..n |-> <<a[i], b[i]>>]

(* j in args *)
PyIn(j, args) == \E i \in 1..Len(args) : PyEq(args[i], j)

(* self.to_json(): the instance's class gives the schema. *)
to_json(obj) == to_json_with_match(Classes[obj.v[1]].schema, obj)

fields_to_json(j) ==
  CASE j.k \in {"str", "int", "bool"} -> j
    [] j.k \in {"list", "tuple"} ->
         LET out == [i \in 1..Len(j.v) |-> fields_to_json(j.v[i])]
         IN IF AnyErr(out) THEN FirstErr(out) ELSE ListV(out)
    [] j.k = "dict" ->
         LET out == [i \in 1..Len(j.v) |-> fields_to_json(j.v[i][2])]
         IN IF \E i \in 1..Len(j.v) : j.v[i][1].k # "str" THEN Err("AssertionError")
            ELSE IF AnyErr(out) THEN FirstErr(out)
            ELSE DictV([i \in 1..Len(j.v) |-> <<j.v[i][1], out[i]>>])
    [] j.k = "obj" -> to_json(j)
    [] OTHER -> Err("UnclassifiableValue")

to_json_with_match(schema, obj) ==
  CASE schema.k \in {"list", "tuple"} ->
         LET out == [i \in 1..Len(schema.v) |-> to_json_with_match(schema.v[i], obj)]
         IN IF AnyErr(out) THEN FirstErr(out) ELSE ListV(out)
    [] schema.k = "str" ->
         IF schema.v \in DOMAIN Classes[obj.v[1]].ann
         THEN fields_to_json(obj.v[2][schema.v])
         ELSE schema
    [] schema.k \in {"int", "bool"} -> schema
    [] OTHER -> Err("SchemaMalformed")

(* The union branch with the alternatives tried from the last one. *)
LastAccepted(results) ==
  IF \A i \in 1..Len(results) : IsErr(results[i]) THEN Err("UnionExhausted")
  ELSE results[CHOOSE i \in 1..Len(results) :
                 ~IsErr(results[i]) /\ \A h \in (i + 1)..Len(results) : IsErr(results[h])]

(* The union branch: the first alternative that raises nothing. *)
FirstAccepted(results) ==
  IF \A i \in 1..Len(results) : IsErr(results[i]) THEN Err("UnionExhausted")
  ELSE results[CHOOSE i \in 1..Len(results) :
                 ~IsErr(results[i]) /\ \A h \in 1..(i - 1) : IsErr(results[h])]

(* The tuple branch without its assert: zip cuts to the shorter side. *)
TupleFromJsonTruncating(j, args) ==
  IF ~Iterable(j) THEN Err("NoLen")
  ELSE Gen([i \in 1..Len(Zip(Iter(j), args)) |-> Iter(j)[i]],
           [i \in 1..Len(Zip(Iter(j), args)) |-> args[i]])

(* The tuple branch: the length is asserted, the elements are left to a
   generator expression, which converts nothing until it is iterated. *)
TupleFromJson(j, args) ==
  IF ~Iterable(j) THEN Err("NoLen")
  ELSE IF PyLen(j) # Len(args) THEN Err("ArityMismatch")
  ELSE Gen(Iter(j), args)

(* The dict branch letting the value through instead of asserting. *)
DictPassThrough(j) == j

(* The dict branch: assert False. *)
DictFromJson(j) == Err("UnsupportedFieldKind")

field_from_json(j, field_type) ==
  CASE field_type.t = "prim" -> j
    [] field_type.t = "lit" ->
         IF PyIn(j, field_type.args) THEN j ELSE Err("LiteralSetMismatch")
    [] field_type.t = "union" ->
         FirstAccepted([i \in 1..Len(field_type.args) |->
                          field_from_json(j, field_type.args[i])])
    [] field_type.t = "list" ->
         IF ~Iterable(j) THEN Err("NotIterable")
         ELSE LET out == [i \in 1..Len(Iter(j)) |->
                            field_from_json(Iter(j)[i], field_type.args[1])]
              IN IF AnyErr(out) THEN FirstErr(out) ELSE ListV(out)
    [] field_type.t = "tuple" -> TupleFromJson(j, field_type.args)
    [] field_type.t = "dict" -> DictFromJson(j)
    [] OTHER -> from_json(field_type.cls, j)

(* A string leaf that is no field, accepted without the comparison. *)
StrLiteralUnchecked(j, schema) == Map(ChainMap(<<>>))

(* A string leaf that is no field: equal to the element, or an error. *)
StrLiteralFromJson(j, schema) ==
  IF PyEq(schema, j) THEN Map(ChainMap(<<>>)) ELSE Err("LiteralMismatch")

(* An int or bool leaf: the element is not looked at. *)
IntLiteralFromJson(j, schema) == Map(ChainMap(<<>>))

(* The bindings of the sub-schemas, merged. *)
MergeBindings(maps) == Map(ChainMap(maps))

(* The pairs a sequence schema is matched over. *)
SchemaPairs(j, schema) == Zip(Iter(j), schema.v)

from_json_with_match(j, schema, fields) ==
  CASE schema.k \in {"list", "tuple"} ->
         IF ~Iterable(j) THEN Err("NotIterable")
         ELSE LET pairs == SchemaPairs(j, schema)
                  out == [i \in 1..Len(pairs) |->
                            from_json_with_match(pairs[i][1], pairs[i][2], fields)]
              IN IF AnyErr(out) THEN FirstErr(out)
                 ELSE MergeBindings([i \in 1..Len(out) |-> out[i].v])
    [] schema.k = "str" ->
         IF schema.v \in DOMAIN fields
         THEN LET val == field_from_json(j, fields[schema.v])
              IN IF IsErr(val) THEN val ELSE Map([n \in {schema.v} |-> val])
         ELSE StrLiteralFromJson(j, schema)
    [] schema.k \in {"int", "bool"} -> IntLiteralFromJson(j, schema)
    [] OTHER -> Err("SchemaMalformed")

(* cls called with the bindings: the dataclass constructor takes every annotated field
   and nothing else. *)
Construct(c, bindings) ==
  IF DOMAIN bindings = DOMAIN Classes[c].ann THEN Obj(c, bindings)
  ELSE Err("ConstructorMismatch")

from_json(c, j) ==
  LET m == from_json_with_match(j, Classes[c].schema, Classes[c].ann)
  IN IF IsErr(m) THEN m ELSE Construct(c, m.v)

(* Iterating a generator to its end: the conversions it had put off. *)
Force(g) ==
  LET out == [i \in 1..Len(g.v[1]) |-> field_from_json(g.v[1][i], g.v[2][i])]
  IN IF AnyErr(out) THEN FirstErr(out) ELSE TupleV(out)

-----------------------------------------------------------------------------
(* Inputs *)

SeqsUpTo(S) == UNION {[1..n -> S] : n \in 0..MaxLen}

InnerAtoms == {IntV(1), IntV(2), StrV("a")}
TopAtoms == InnerAtoms \cup {StrV("b"), DictV(<<<<StrV("a"), IntV(1)>>>>)}

(* JSON values one level deep, and the inputs: two levels deep. *)
Elems == TopAtoms \cup {ListV(s) : s \in SeqsUpTo(InnerAtoms)}
JsonInputs == TopAtoms \cup {ListV(s) : s \in SeqsUpTo(Elems)}

(* The field types the declared classes use, at any depth. *)
RECURSIVE SubTypes(_)
SubTypes(t) ==
  {t} \cup (IF t.t \in {"union", "list", "tuple"}
            THEN UNION {SubTypes(t.args[i]) : i \in 1..Len(t.args)}
            ELSE {})
FieldTypes ==
  UNION {UNION {SubTypes(Classes[c].ann[n]) : n \in DOMAIN Classes[c].ann} : c \in ClassNames}

(* The well-typed values of a field type, and the instances of a class. *)
RECURSIVE ValuesOf(_), Instances(_)
ValuesOf(t) ==
  CASE t.t = "prim" -> InnerAtoms
    [] t.t = "lit" -> {t.args[i] : i \in 1..Len(t.args)}
    [] t.t = "union" -> UNION {ValuesOf(t.args[i]) : i \in 1..Len(t.args)}
    [] t.t = "list" -> {ListV(s) : s \in SeqsUpTo(ValuesOf(t.args[1]))}
    [] t.t = "tuple" ->
         {TupleV(s) : s \in {q \in [1..Len(t.args) -> UNION {ValuesOf(t.args[i]) : i \in 1..Len(t.args)}] :
                               \A i \in 1..Len(t.args) : q[i] \in ValuesOf(t.args[i])}}
    [] t.t = "dict" -> {}
    [] OTHER -> Instances(t.cls)

Instances(c) ==
  LET ann == Classes[c].ann
  IN {Obj(c, f) : f \in {g \in [DOMAIN ann -> UNION {ValuesOf(ann[n]) : n \in DOMAIN ann}] :
                           \A n \in DOMAIN ann : g[n] \in ValuesOf(ann[n])}}

-----------------------------------------------------------------------------
(* The record classes: from_json and to_json, once and then back *)

Init ==
  /\ cls \in ClassNames
  /\ ft = TPrim
  /\ x0 \in JsonInputs \cup Instances(cls)
  /\ y = None
  /\ z = None
  /\ pc = "start"

(* cls.from_json(j), on the input or on what to_json made of the input. *)
FromJson ==
  \/ /\ pc = "start"
     /\ x0.k # "obj"
     /\ y' = from_json(cls, x0)
     /\ pc' = "decoded"
     /\ UNCHANGED <<cls, ft, x0, z>>
  \/ /\ pc = "encoded"
     /\ ~IsErr(y)
     /\ z' = from_json(cls, y)
     /\ pc' = "redecoded"
     /\ UNCHANGED <<cls, ft, x0, y>>

(* obj.to_json(), on the input or on what from_json made of the input. *)
ToJson ==
  \/ /\ pc = "start"
     /\ x0.k = "obj"
     /\ y' = to_json(x0)
     /\ pc' = "encoded"
     /\ UNCHANGED <<cls, ft, x0, z>>
  \/ /\ pc = "decoded"
     /\ ~IsErr(y)
     /\ z' = to_json(y)
     /\ pc' = "reencoded"
     /\ UNCHANGED <<cls, ft, x0, y>>

Next == FromJson \/ ToJson

Spec == Init /\ [][Next]_vars

-----------------------------------------------------------------------------
(* The coercer alone: one value against one field type *)

InitCoerce ==
  /\ cls = "Tagged"
  /\ ft \in FieldTypes
  /\ x0 \in Elems
  /\ y = None
  /\ z = None
  /\ pc = "start"

Coerce ==
  /\ pc = "start"
  /\ y' = field_from_json(x0, ft)
  /\ pc' = "coerced"
  /\ UNCHANGED <<cls, ft, x0, z>>

(* The caller iterates the generator a tuple field was bound to. *)
Consume ==
  /\ pc = "coerced"
  /\ y.k = "gen"
  /\ z' = Force(y)
  /\ pc' = "consumed"
  /\ UNCHANGED <<cls, ft, x0, y>>

NextCoerce == Coerce \/ Consume

SpecCoerce == InitCoerce /\ [][NextCoerce]_vars

-----------------------------------------------------------------------------
(* Properties *)

Schema == Classes[cls].schema
Ann == Classes[cls].ann

IsArray(j) == j.k = "list"
MinLen(a, b) == IF Len(a) < Len(b) THEN Len(a) ELSE Len(b)
IsStrLiteral(leaf, fields) == leaf.k = "str" /\ leaf.v \notin DOMAIN fields
IsIntLiteral(leaf) == leaf.k \in {"int", "bool"}

(* Some string literal leaf of the schema lies over an element of the JSON
   array that differs from it. *)
RECURSIVE StrLiteralDiffers(_, _, _)
StrLiteralDiffers(j, schema, fields) ==
  IF schema.k \in {"list", "tuple"}
  THEN /\ IsArray(j)
       /\ \E i \in 1..MinLen(j.v, schema.v) : StrLiteralDiffers(j.v[i], schema.v[i], fields)
  ELSE IsStrLiteral(schema, fields) /\ ~(j.k = "str" /\ j.v = schema.v)

(* The same for the int and bool literal leaves, under Python's ==. *)
RECURSIVE IntLiteralDiffers(_, _)
IntLiteralDiffers(j, schema) ==
  IF schema.k \in {"list", "tuple"}
  THEN /\ IsArray(j)
       /\ \E i \in 1..MinLen(j.v, schema.v) : IntLiteralDiffers(j.v[i], schema.v[i])
  ELSE IsIntLiteral(schema) /\ ~(j.k \in {"int", "bool"} /\ j.v = schema.v)

(* Every field leaf that lies over an element converts it without error. *)
RECURSIVE FieldsConvert(_, _, _)
FieldsConvert(j, schema, fields) ==
  IF schema.k \in {"list", "tuple"}
  THEN IsArray(j) =>
         \A i \in 1..MinLen(j.v, schema.v) : FieldsConvert(j.v[i], schema.v[i], fields)
  ELSE (schema.k = "str" /\ schema.v \in DOMAIN fields) =>
         ~IsErr(field_from_json(j, fields[schema.v]))

(* The JSON value has an array wherever the schema has a sequence, with an
   element for every sub-schema. *)
RECURSIVE Covers(_, _)
Covers(j, schema) ==
  schema.k \in {"list", "tuple"} =>
    /\ IsArray(j)
    /\ Len(j.v) >= Len(schema.v)
    /\ \A i \in 1..Len(schema.v) : Covers(j.v[i], schema.v[i])

(* At most one alternative of each union field accepts the field's JSON. *)
OneRepresentation(obj) ==
  \A n \in DOMAIN obj.v[2] :
    LET t == Classes[obj.v[1]].ann[n]
    IN t.t = "union" =>
         Cardinality({i \in 1..Len(t.args) :
            ~IsErr(field_from_json(fields_to_json(obj.v[2][n]), t.args[i]))}) <= 1

(* C1: decoding what to_json made of an instance gives back an equal
   instance, for every instance whose values have one representation. *)
C1_RoundTripDecodeEncode ==
  (pc = "redecoded" /\ OneRepresentation(x0)) => (~IsErr(z) /\ PyEq(z, x0))

(* The JSON value has the shape the field type declares, and matches the
   schema: an array of the schema's length wherever the schema has a
   sequence, equal to the schema at every literal leaf, of the declared shape
   at every field leaf. *)
RECURSIVE HasType(_, _), Conforms(_, _, _)
HasType(j, t) ==
  CASE t.t = "prim" -> j.k \in {"str", "int", "bool"}
    [] t.t = "lit" -> PyIn(j, t.args)
    [] t.t = "union" -> \E i \in 1..Len(t.args) : HasType(j, t.args[i])
    [] t.t = "list" -> IsArray(j) /\ \A i \in 1..Len(j.v) : HasType(j.v[i], t.args[1])
    [] t.t = "tuple" ->
         /\ IsArray(j)
         /\ Len(j.v) = Len(t.args)
         /\ \A i \in 1..Len(t.args) : HasType(j.v[i], t.args[i])
    [] t.t = "dict" -> FALSE
    [] OTHER -> Conforms(j, Classes[t.cls].schema, Classes[t.cls].ann)

Conforms(j, schema, fields) ==
  IF schema.k \in {"list", "tuple"}
  THEN /\ IsArray(j)
       /\ Len(j.v) = Len(schema.v)
       /\ \A i \in 1..Len(schema.v) : Conforms(j.v[i], schema.v[i], fields)
  ELSE IF schema.k = "str" /\ schema.v \in DOMAIN fields
  THEN HasType(j, fields[schema.v])
  ELSE PyEq(schema, j)

(* The field names a schema refers to, leaf by leaf, and the schemas that
   refer to no field twice. *)
RECURSIVE FieldRefs(_, _)
FieldRefs(schema, fields) ==
  IF schema.k \in {"list", "tuple"}
  THEN IF schema.v = <<>> THEN <<>>
       ELSE FieldRefs(Head(schema.v), fields)
              \o FieldRefs([schema EXCEPT !.v = Tail(schema.v)], fields)
  ELSE IF schema.k = "str" /\ schema.v \in DOMAIN fields THEN <<schema.v>>
  ELSE <<>>

NoRepeatedField(schema, fields) ==
  \A i, h \in 1..Len(FieldRefs(schema, fields)) :
    FieldRefs(schema, fields)[i] = FieldRefs(schema, fields)[h] => i = h

(* C2: encoding what from_json made of a JSON value gives back an equal JSON
   value, whenever the value matches the schema (one that names no field
   twice) and from_json returned a record. *)
C2_RoundTripEncodeDecode ==
  (pc = "reencoded" /\ y.k = "obj" /\ NoRepeatedField(Schema, Ann)
     /\ Conforms(x0, Schema, Ann))
    => (~IsErr(z) /\ PyEq(z, x0))

(* C3: a string literal leaf rejects every array whose element at its place
   differs from it, with the literal-mismatch error when no field leaf fails
   before it; and an array that has an element for every leaf, equal at the
   string literals and convertible at the fields, is accepted, the record
   holding the declared fields and nothing for the literal. *)
C3_LiteralDiscrimination ==
  pc = "decoded" =>
    /\ StrLiteralDiffers(x0, Schema, Ann) => IsErr(y)
    /\ (StrLiteralDiffers(x0, Schema, Ann) /\ FieldsConvert(x0, Schema, Ann))
         => y = Err("LiteralMismatch")
    /\ (Covers(x0, Schema) /\ ~StrLiteralDiffers(x0, Schema, Ann)
          /\ FieldsConvert(x0, Schema, Ann))
         => (y.k = "obj" /\ DOMAIN y.v[2] = DOMAIN Ann)
    /\ (cls = "Tagged" /\ Covers(x0, Schema) /\ ~StrLiteralDiffers(x0, Schema, Ann))
         => y = Obj("Tagged", [v |-> x0.v[2]])

C3_Witness ==
  /\ pc = "decoded"
  /\ cls = "Tagged"
  /\ x0 = ListV(<<StrV("b"), IntV(2)>>)
  /\ y = Err("LiteralMismatch")

(* C4: a union gives the result of the first alternative, in declared order,
   that converts the value, and raises the no-alternative error exactly when
   every alternative raises. *)
C4_UnionPrecedence ==
  (pc = "coerced" /\ ft.t = "union") =>
    LET res == [i \in 1..Len(ft.args) |-> field_from_json(x0, ft.args[i])]
    IN /\ IsErr(y) <=> \A i \in 1..Len(res) : IsErr(res[i])
       /\ IsErr(y) => y = Err("UnionExhausted")
       /\ \A i \in 1..Len(res) :
            (~IsErr(res[i]) /\ \A h \in 1..(i - 1) : IsErr(res[h])) => y = res[i]

C4_Witness ==
  /\ pc = "coerced"
  /\ ft.t = "union"
  /\ \E i, h \in 1..Len(ft.args) :
       /\ i < h
       /\ ~IsErr(field_from_json(x0, ft.args[i]))
       /\ ~IsErr(field_from_json(x0, ft.args[h]))
       /\ field_from_json(x0, ft.args[i]) # field_from_json(x0, ft.args[h])
       /\ \A g \in 1..(i - 1) : IsErr(field_from_json(x0, ft.args[g]))
       /\ y = field_from_json(x0, ft.args[i])

(* C5: a JSON array whose length differs from a tuple type's arity is
   refused with the arity error, and a union never answers with the
   conversion of a tuple alternative of another arity. *)
C5_ArityEnforcement ==
  pc = "coerced" =>
    /\ (ft.t = "tuple" /\ IsArray(x0) /\ Len(x0.v) # Len(ft.args))
         => y = Err("ArityMismatch")
    /\ y.k = "gen" => (Len(y.v[1]) = Len(y.v[2]) /\ y.v[1] = Iter(x0))
    /\ ft.t = "union" =>
         \A i \in 1..Len(ft.args) :
           (ft.args[i].t = "tuple" /\ IsArray(x0) /\ Len(x0.v) # Len(ft.args[i].args))
             => ~(y.k = "gen" /\ y.v[2] = ft.args[i].args)

C5_Witness ==
  /\ pc = "coerced"
  /\ ft = TTuple(<<TPrim>>)
  /\ x0 = ListV(<<IntV(1), IntV(2)>>)
  /\ y = Err("ArityMismatch")

(* C6: converting any value against a mapping field type raises; from_json
   of a class with such a field raises on every input; and where the mapping
   is an alternative of a union field, a record is returned only with the
   conversion of another alternative. *)
C6_MappingUnsupported ==
  pc = "decoded" =>
    \A n \in DOMAIN Ann :
      /\ Ann[n].t = "dict" => (IsErr(y) /\ IsErr(field_from_json(x0, Ann[n])))
      /\ (Ann[n].t = "union" /\ y.k = "obj"
            /\ \E i \in 1..Len(Ann[n].args) : Ann[n].args[i].t = "dict") =>
           \E i \in 1..Len(Ann[n].args) : \E h \in 1..Len(Iter(x0)) :
             /\ Ann[n].args[i].t # "dict"
             /\ y.v[2][n] = field_from_json(Iter(x0)[h], Ann[n].args[i])

C6_Witness ==
  /\ pc = "decoded"
  /\ cls = "Table"
  /\ x0 = ListV(<<StrV("a"), DictV(<<<<StrV("a"), IntV(1)>>>>)>>)
  /\ y = Err("UnsupportedFieldKind")

(* C7: an int or bool literal leaf rejects every array whose element at its
   place differs from it. *)
C7_IntLiteralChecked ==
  (pc = "decoded" /\ IntLiteralDiffers(x0, Schema)) => IsErr(y)

(* C8: a JSON array is accepted by a sequence schema only when it has the
   length of the schema. *)
C8_SequenceLengthChecked ==
  (pc = "decoded" /\ IsArray(x0) /\ Len(x0.v) # Len(Schema.v)) => IsErr(y)

(* C9: converting an array of the right length against a tuple type raises
   when an element fails its element type. *)
C9_NoPartialTuple ==
  (pc = "coerced" /\ ft.t = "tuple" /\ IsArray(x0) /\ Len(x0.v) = Len(ft.args)
     /\ \E i \in 1..Len(ft.args) : IsErr(field_from_json(x0.v[i], ft.args[i])))
    => IsErr(y)

(* The bindings of the sub-schemas of the class's schema, one by one. *)
SubBindings ==
  [i \in 1..Len(SchemaPairs(x0, Schema)) |->
     from_json_with_match(SchemaPairs(x0, Schema)[i][1],
                          SchemaPairs(x0, Schema)[i][2], Ann)]

(* C10 as stated: the record's fields are those the sub-schemas bind, and a
   field bound by several sub-schemas has the value of the last of them. *)
C10_LaterBindingWins ==
  (pc = "decoded" /\ y.k = "obj") =>
    /\ DOMAIN y.v[2] = UNION {DOMAIN SubBindings[i].v : i \in 1..Len(SubBindings)}
    /\ \A n \in DOMAIN y.v[2] : \A i \in 1..Len(SubBindings) :
         (n \in DOMAIN SubBindings[i].v
            /\ \A h \in (i + 1)..Len(SubBindings) : n \notin DOMAIN SubBindings[h].v)
           => y.v[2][n] = SubBindings[i].v[n]

(* C10 amended: the record's fields are those the sub-schemas bind, and a
   field bound by several sub-schemas has the value of the first of them. *)
C10_EarlierBindingWins ==
  (pc = "decoded" /\ y.k = "obj") =>
    /\ DOMAIN y.v[2] = UNION {DOMAIN SubBindings[i].v : i \in 1..Len(SubBindings)}
    /\ \A n \in DOMAIN y.v[2] : \A i \in 1..Len(SubBindings) :
         (n \in DOMAIN SubBindings[i].v
            /\ \A h \in 1..(i - 1) : n \notin DOMAIN SubBindings[h].v)
           => y.v[2][n] = SubBindings[i].v[n]

C10_Witness ==
  /\ pc = "decoded"
  /\ cls = "Dup"
  /\ x0 = ListV(<<IntV(1), IntV(2)>>)
  /\ y = Obj("Dup", [v |-> IntV(1)])

====
